---- MODULE Spec2Model ----
(***************************************************************************)
(* Model of pylib/controller.py (PolychromaticController): the request     *)
(* router parse_request, its seven handlers and the error dialog.          *)
(*                                                                         *)
(* One dispatch is one step: the UI hands parse_request a request name and *)
(* a payload, the OpenRazer backend answers every call the handler makes,  *)
(* and the step records what the controller did: the backend calls, the    *)
(* pushes into the view (run_js / send_view_variable) and the log lines.   *)
(***************************************************************************)
EXTENDS Integers, Sequences, FiniteSets, TLC

VARIABLES
    pc,          \* "idle": waiting for the UI; "done": parse_request has returned
    request,     \* the request name of the dispatch
    data,        \* its payload: a mapping from keys to Python values
    backend,     \* what the backend answers during the dispatch
    calls,       \* calls made to openrazer.* and webbrowser, in order
    ui,          \* pushes into the view, in order
    log,         \* dbg.stdout lines, in order
    raised,      \* the exception raised while the handler ran, NoExc if none
    propagated   \* an exception left parse_request

vars == <<pc, request, data, backend, calls, ui, log, raised, propagated>>

(***************************************************************************)
(* Bounds                                                                  *)
(***************************************************************************)
MaxDevices == 2      \* devices in the backend's device list
MaxStrLen == 2       \* characters of a daemon exception message
MaxRaiseAt == 2      \* the latest fan-out call that may raise

Seqs(S, n) == UNION {[1..k -> S] : k \in 0..n}

(***************************************************************************)
(* Python values: a type tag and a payload.  A str is its sequence of      *)
(* characters (or of opaque chunks); NL is the newline character.          *)
(***************************************************************************)
NL == "\n"
None == [t |-> "NoneType", v |-> <<>>]
PyBool(b) == [t |-> "bool", v |-> b]
PyInt(n) == [t |-> "int", v |-> n]
PyStr(s) == [t |-> "str", v |-> s]
PyList(s) == [t |-> "list", v |-> s]
PyDict(d) == [t |-> "dict", v |-> d]
\* the type object `str` itself, as written in `data == str`
StrType == [t |-> "type", v |-> <<"str">>]

IsNum(a) == a.t \in {"bool", "int"}
Num(a) == IF a.t = "bool" THEN (IF a.v THEN 1 ELSE 0) ELSE a.v

\* Python's a == b: bool is a subclass of int (0 == False, 1 == True);
\* values of unrelated types are unequal.
PyEq(a, b) ==
    IF IsNum(a) /\ IsNum(b) THEN Num(a) = Num(b)
    ELSE a.t = b.t /\ a.v = b.v

\* type(a) == str
TypeIsStr(a) == a.t = "str"

(***************************************************************************)
(* Exceptions.  NoExc: the code ran to its end.                            *)
(***************************************************************************)
NoExc == "none"

\* common.get_exception_as_string(e): the formatted traceback, several lines.
get_exception_as_string(e) == <<"Traceback (most recent call last):", NL, e>>

\* locales.LOCALES[key]: the translated text, an opaque chunk per key.
LOCALES(key) == <<key>>

\* str.replace("\n", "<br>")
RECURSIVE replace_nl(_)
replace_nl(s) ==
    IF s = <<>> THEN <<>>
    ELSE (IF Head(s) = NL THEN <<"<", "b", "r", ">">> ELSE <<Head(s)>>)
         \o replace_nl(Tail(s))

(***************************************************************************)
(* The view bridge and the log                                             *)
(***************************************************************************)
EmptyDict == PyDict(<<>>)

\* webview.run_js("{0}({1});".format(function, json.dumps(data)))
\* `function` is the text of the function's name
run_function(function, d) == [ch |-> "run_js", fn |-> function, args |-> <<d>>]

\* _app.send_view_variable(name, value)
send_view_variable(name, value) ==
    [ch |-> "send_view_variable", fn |-> <<name>>, args |-> <<value>>]

\* open_dialog(`title`, `reason with newlines as <br>`, 'style', ...)
_internal_error(title, reason, style) ==
    [ch |-> "run_js", fn |-> <<"open_dialog">>,
     args |-> <<title, replace_nl(reason), style>>]

\* dbg.stdout(msg, level): the literal text and the values formatted into it
stdout(msg, fmt, level) == [msg |-> msg, fmt |-> fmt, level |-> level]

Call(fn, args) == [fn |-> fn, args |-> args]

\* What a piece of handler code did: its calls, pushes, log lines, the
\* exception it ended with (exc), and the exception it caught itself (inner).
Did(c, u, l, e) == [calls |-> c, ui |-> u, log |-> l, exc |-> e, inner |-> NoExc]

\* A backend answer: a returned value, or an exception raised by the call.
Returns(val) == [raise |-> FALSE, val |-> val]
Raises == [raise |-> TRUE, val |-> None]

\* data[key] on the payload mapping
HasKey(d, key) == key \in DOMAIN d

(***************************************************************************)
(* int(x): the integer of an int, a bool or a string of decimal digits;    *)
(* any other string raises ValueError, None raises TypeError.              *)
(***************************************************************************)
Digits == <<"0", "1", "2", "3", "4", "5", "6", "7", "8", "9">>
IsDigit(c) == \E i \in 1..10 : Digits[i] = c
DigitVal(c) == (CHOOSE i \in 1..10 : Digits[i] = c) - 1

RECURSIVE ParseDigits(_, _)
ParseDigits(s, acc) ==
    IF s = <<>> THEN acc ELSE ParseDigits(Tail(s), 10 * acc + DigitVal(Head(s)))

IntExc(x) ==
    IF IsNum(x) THEN NoExc
    ELSE IF x.t = "str"
         THEN (IF x.v # <<>> /\ \A i \in 1..Len(x.v) : IsDigit(x.v[i])
               THEN NoExc ELSE "ValueError")
         ELSE "TypeError"

IntOf(x) == IF IsNum(x) THEN PyInt(Num(x)) ELSE PyInt(ParseDigits(x.v, 0))

(***************************************************************************)
(* _update_device_list                                                     *)
(***************************************************************************)
_update_device_list(d, b) ==
    LET c == <<Call("get_device_list", <<>>)>>
    IN  IF b.list.raise THEN Did(c, <<>>, <<>>, "BackendError")
        ELSE LET u == <<send_view_variable("CACHE_DEVICES", b.list.val)>>
             IN  IF ~HasKey(d, "callback") THEN Did(c, u, <<>>, "KeyError")
                 ELSE Did(c, u \o <<run_function(d["callback"].v, EmptyDict)>>,
                          <<>>, NoExc)

(***************************************************************************)
(* _open_device                                                            *)
(***************************************************************************)
\* the three-way branch on what openrazer.get_device returned
_open_device_result(dev) ==
    IF PyEq(dev, None)
    THEN <<run_function(<<"open_device_overview">>, EmptyDict)>>
    ELSE IF PyEq(dev, StrType)
    THEN <<run_function(<<"_open_device_error">>,
                        PyDict([code |-> PyInt(-2), exception |-> dev]))>>
    ELSE <<run_function(<<"_open_device">>, dev)>>

_open_device(d, b) ==
    IF ~HasKey(d, "uid") THEN Did(<<>>, <<>>, <<>>, "KeyError")
    ELSE LET c == <<Call("get_device", <<d["uid"]>>)>>
         IN  IF b.ret.raise THEN Did(c, <<>>, <<>>, "BackendError")
             ELSE Did(c, _open_device_result(b.ret.val), <<>>, NoExc)

(***************************************************************************)
(* _set_device_state                                                       *)
(***************************************************************************)
\* the first of `keys` the payload lacks, "" when it has them all
RECURSIVE FirstMissing(_, _)
FirstMissing(d, keys) ==
    IF keys = <<>> THEN ""
    ELSE IF ~HasKey(d, Head(keys)) THEN Head(keys)
    ELSE FirstMissing(d, Tail(keys))

\* variant: the `request == False` branch is missing, as in _debug_matrix
_set_device_state_result_no_false(r) ==
    IF PyEq(r, None)
    THEN [ui |-> <<_internal_error(LOCALES("error_device_gone_title"),
                                   LOCALES("error_device_gone_text"), "warning")>>,
          log |-> <<stdout("Device not found in backend", <<>>, "warning")>>]
    ELSE IF TypeIsStr(r)
    THEN [ui |-> <<_internal_error(LOCALES("error_backend_title"),
                                   LOCALES("error_backend_text")
                                       \o <<"<pre>">> \o r.v \o <<"</pre>">>,
                                   "serious")>>,
          log |-> <<stdout("{0}", <<r>>, "error")>>]
    ELSE IF PyEq(r, PyBool(TRUE))
    THEN [ui |-> <<>>,
          log |-> <<stdout("Successfully executed request", <<>>, "success")>>]
    ELSE [ui |-> <<>>, log |-> <<>>]

\* the branch on what openrazer.set_device_state returned: the dialog and
\* the log lines
_set_device_state_result(r) ==
    IF PyEq(r, None)
    THEN [ui |-> <<_internal_error(LOCALES("error_device_gone_title"),
                                   LOCALES("error_device_gone_text"), "warning")>>,
          log |-> <<stdout("Device not found in backend", <<>>, "warning")>>]
    ELSE IF PyEq(r, PyBool(FALSE))
    THEN [ui |-> <<_internal_error(LOCALES("error_bad_request_title"),
                                   LOCALES("error_bad_request_text"), "warning")>>,
          log |-> <<stdout("Invalid request.", <<>>, "warning")>>]
    ELSE IF TypeIsStr(r)
    THEN [ui |-> <<_internal_error(LOCALES("error_backend_title"),
                                   LOCALES("error_backend_text")
                                       \o <<"<pre>">> \o r.v \o <<"</pre>">>,
                                   "serious")>>,
          log |-> <<stdout("{0}", <<r>>, "error")>>]
    ELSE IF PyEq(r, PyBool(TRUE))
    THEN [ui |-> <<>>,
          log |-> <<stdout("Successfully executed request", <<>>, "success")>>]
    ELSE [ui |-> <<>>, log |-> <<>>]

_set_device_state(d, b) ==
    IF ~HasKey(d, "uid") THEN Did(<<>>, <<>>, <<>>, "KeyError")
    ELSE IF IntExc(d["uid"]) # NoExc THEN Did(<<>>, <<>>, <<>>, IntExc(d["uid"]))
    ELSE IF FirstMissing(d, <<"backend", "backend_request", "zone",
                              "colour_hex", "params">>) # ""
    THEN Did(<<>>, <<>>, <<>>, "KeyError")
    ELSE LET uid == IntOf(d["uid"])
             l == <<stdout("Processing request '{2}' for device {0} in backend '{1}'...",
                           <<uid, d["backend"], d["backend_request"]>>, "action")>>
             c == <<Call("set_device_state",
                         <<uid, d["backend_request"], d["zone"],
                           d["colour_hex"], d["params"]>>)>>
         IN  IF b.ret.raise THEN Did(c, <<>>, l, "BackendError")
             ELSE LET r == _set_device_state_result(b.ret.val)
                  IN  Did(c, r.ui, l \o r.log, NoExc)

(***************************************************************************)
(* _debug_matrix                                                           *)
(***************************************************************************)
\* the branch on what openrazer.debug_matrix returned
_debug_matrix_result(r, row, column) ==
    IF PyEq(r, None)
    THEN [ui |-> <<_internal_error(LOCALES("error_device_gone_title"),
                                   LOCALES("error_device_gone_text"), "warning")>>,
          log |-> <<>>]
    ELSE IF TypeIsStr(r)
    THEN [ui |-> <<_internal_error(LOCALES("error_backend_title"),
                                   LOCALES("error_backend_text")
                                       \o <<"<pre>">> \o r.v \o <<"</pre>">>,
                                   "serious")>>,
          log |-> <<stdout("{0}", <<r>>, "error")>>]
    ELSE IF PyEq(r, PyBool(TRUE))
    THEN [ui |-> <<>>,
          log |-> <<stdout("OK: [{0},{1}]", <<row, column>>, "success")>>]
    ELSE [ui |-> <<>>, log |-> <<>>]

\* the exception, if any, of reading uid, backend, row and column out of the
\* payload and converting them
_debug_matrix_exc(d) ==
    IF ~HasKey(d, "uid") THEN "KeyError"
    ELSE IF IntExc(d["uid"]) # NoExc THEN IntExc(d["uid"])
    ELSE IF ~HasKey(d, "backend") THEN "KeyError"
    ELSE IF ~HasKey(d, "position") THEN "KeyError"
    ELSE IF Len(d["position"].v) < 2 THEN "IndexError"
    ELSE IF IntExc(d["position"].v[1]) # NoExc THEN IntExc(d["position"].v[1])
    ELSE IntExc(d["position"].v[2])

_debug_matrix(d, b) ==
    IF _debug_matrix_exc(d) # NoExc
    THEN Did(<<>>, <<>>, <<>>, _debug_matrix_exc(d))
    ELSE LET row == d["position"].v[1]
             column == d["position"].v[2]
             c == <<Call("debug_matrix",
                         <<IntOf(d["uid"]), IntOf(row), IntOf(column)>>)>>
         IN  IF b.ret.raise THEN Did(c, <<>>, <<>>, "BackendError")
             ELSE LET r == _debug_matrix_result(b.ret.val, row, column)
                  IN  Did(c, r.ui, r.log, NoExc)

(***************************************************************************)
(* _open_help                                                              *)
(***************************************************************************)
_open_help(d, b) ==
    Did(<<Call("webbrowser.open", <<"https://polychromatic.app/docs">>)>>,
        <<>>, <<>>, IF b.ret.raise THEN "BackendError" ELSE NoExc)

(***************************************************************************)
(* _troubleshoot_openrazer: its own try / bare except                      *)
(***************************************************************************)
\* the try block
troubleshoot_try(d, b) ==
    LET c == <<Call("troubleshoot", <<>>)>>
        l == <<stdout("Running troubleshooter for OpenRazer...", <<>>, "warning")>>
    IN  IF b.ret.raise THEN Did(c, <<>>, l, "BackendError")
        ELSE Did(c,
                 <<run_function(<<"_show_troubleshoot_results">>, b.ret.val)>>,
                 l \o <<stdout("Troubleshooting finished.", <<>>, "success")>>,
                 NoExc)

\* variant: no try / except around the body
_troubleshoot_openrazer_no_try(d, b) == troubleshoot_try(d, b)

_troubleshoot_openrazer(d, b) ==
    LET t == troubleshoot_try(d, b)
    IN  IF t.exc = NoExc THEN t
        ELSE [calls |-> t.calls,
              ui |-> t.ui \o
                  <<_internal_error(LOCALES("troubleshoot"),
                                    LOCALES("troubleshoot_cannot_run"), "serious")>>,
              log |-> t.log \o
                  <<stdout("Troubleshooting encountered an exception.", <<>>, "error")>>,
              exc |-> NoExc,
              inner |-> t.exc]

(***************************************************************************)
(* _apply_to_all                                                           *)
(***************************************************************************)
\* Default values for effects
effect_params ==
    (PyStr(<<"spectrum">>) :> None) @@ (PyStr(<<"wave">>) :> PyInt(1))
    @@ (PyStr(<<"reactive">>) :> PyInt(2))
    @@ (PyStr(<<"breath_single">>) :> None) @@ (PyStr(<<"static">>) :> None)

\* variant: no device is passed over
Unavailable_never(device) == FALSE

\* device["available"] == False: the device is passed over
Unavailable(device) == PyEq(device.available, PyBool(FALSE))

\* the (device, zone) pairs the two nested loops visit, in order
RECURSIVE Visits(_)
Visits(devices) ==
    IF devices = <<>> THEN <<>>
    ELSE LET device == Head(devices)
         IN  (IF Unavailable(device) THEN <<>>
              ELSE [i \in 1..Len(device.zones) |-> <<device, device.zones[i]>>])
             \o Visits(Tail(devices))

\* variant: the effect branch passes the value where the parameter belongs
ZoneCall_value_as_param(device, zone, request_type, request_value) ==
    IF PyEq(request_type, PyStr(<<"effect">>))
    THEN <<Call("set_device_state",
                <<device.uid, request_value, zone, None,
                  PyList(<<request_value>>)>>)>>
    ELSE IF PyEq(request_type, PyStr(<<"brightness">>))
    THEN <<Call("set_device_state",
                <<device.uid, PyStr(<<"brightness">>), zone, None,
                  PyList(<<request_value>>)>>)>>
    ELSE IF PyEq(request_type, PyStr(<<"colour">>))
    THEN <<Call("set_device_colours",
                <<device.uid, zone, PyList(<<request_value>>)>>)>>
    ELSE <<>>

\* the backend call of one (device, zone) visit, <<>> when the request type
\* is none of the three
ZoneCall(device, zone, request_type, request_value) ==
    IF PyEq(request_type, PyStr(<<"effect">>))
    THEN <<Call("set_device_state",
                <<device.uid, request_value, zone, None,
                  PyList(<<effect_params[request_value]>>)>>)>>
    ELSE IF PyEq(request_type, PyStr(<<"brightness">>))
    THEN <<Call("set_device_state",
                <<device.uid, PyStr(<<"brightness">>), zone, None,
                  PyList(<<request_value>>)>>)>>
    ELSE IF PyEq(request_type, PyStr(<<"colour">>))
    THEN <<Call("set_device_colours",
                <<device.uid, zone, PyList(<<request_value>>)>>)>>
    ELSE <<>>

\* effect_params[request_value] raises KeyError
LookupFails(request_type, request_value) ==
    /\ PyEq(request_type, PyStr(<<"effect">>))
    /\ request_value \notin DOMAIN effect_params

\* The body of the loops over the visits still to make; n backend calls were
\* made so far.  A call's return value (b.ret) is dropped; the call numbered
\* b.raiseAt raises.
RECURSIVE FanOut(_, _, _, _, _, _)
FanOut(visits, n, request_type, request_value, b, done) ==
    IF visits = <<>> THEN Did(done, <<>>, <<>>, NoExc)
    ELSE IF LookupFails(request_type, request_value)
    THEN Did(done, <<>>, <<>>, "KeyError")
    ELSE LET c == ZoneCall(Head(visits)[1], Head(visits)[2],
                           request_type, request_value)
         IN  IF c # <<>> /\ b.raiseAt = n + 1
             THEN Did(done \o c, <<>>, <<>>, "BackendError")
             ELSE FanOut(Tail(visits), n + Len(c), request_type, request_value,
                         b, done \o c)

\* variant: the parameter is looked up once, before the loops
_apply_to_all_lookup_first(d, b) ==
    IF FirstMissing(d, <<"type", "value">>) # ""
    THEN Did(<<>>, <<>>, <<>>, "KeyError")
    ELSE IF LookupFails(d["type"], d["value"])
    THEN Did(<<>>, <<>>, <<>>, "KeyError")
    ELSE LET c == <<Call("get_device_list", <<>>)>>
         IN  IF b.list.raise THEN Did(c, <<>>, <<>>, "BackendError")
             ELSE IF b.list.val.t # "list" THEN Did(c, <<>>, <<>>, "TypeError")
             ELSE FanOut(Visits(b.list.val.v), 0, d["type"], d["value"], b, c)

_apply_to_all(d, b) ==
    IF FirstMissing(d, <<"type", "value">>) # ""
    THEN Did(<<>>, <<>>, <<>>, "KeyError")
    ELSE LET c == <<Call("get_device_list", <<>>)>>
         IN  IF b.list.raise THEN Did(c, <<>>, <<>>, "BackendError")
             ELSE IF b.list.val.t = "int" THEN Did(c, <<>>, <<>>, "TypeError")
             ELSE IF b.list.val.t = "str"
             THEN Did(c, <<>>, <<>>,
                      IF b.list.val.v = <<>> THEN NoExc ELSE "TypeError")
             ELSE FanOut(Visits(b.list.val.v), 0, d["type"], d["value"], b, c)

(***************************************************************************)
(* parse_request                                                           *)
(***************************************************************************)
\* the keys of the `requests` dictionary
Requests ==
    {"update_device_list", "open_device", "apply_to_all", "set_device_state",
     "debug_matrix", "open_help", "troubleshoot_openrazer"}

\* The first try block only builds the dictionary: nothing is looked up in
\* it, so its `except KeyError` never runs.
requests_exc == NoExc

\* variant: a name outside the dictionary falls back to a handler
Handle_default(req, d, b) ==
    IF req = "open_device" THEN _open_device(d, b)
    ELSE IF req = "apply_to_all" THEN _apply_to_all(d, b)
    ELSE IF req = "set_device_state" THEN _set_device_state(d, b)
    ELSE IF req = "debug_matrix" THEN _debug_matrix(d, b)
    ELSE IF req = "open_help" THEN _open_help(d, b)
    ELSE IF req = "troubleshoot_openrazer" THEN _troubleshoot_openrazer(d, b)
    ELSE _update_device_list(d, b)

\* requests[request](data)
Handle(req, d, b) ==
    IF req = "update_device_list" THEN _update_device_list(d, b)
    ELSE IF req = "open_device" THEN _open_device(d, b)
    ELSE IF req = "apply_to_all" THEN _apply_to_all(d, b)
    ELSE IF req = "set_device_state" THEN _set_device_state(d, b)
    ELSE IF req = "debug_matrix" THEN _debug_matrix(d, b)
    ELSE IF req = "open_help" THEN _open_help(d, b)
    ELSE IF req = "troubleshoot_openrazer" THEN _troubleshoot_openrazer(d, b)
    ELSE Did(<<>>, <<>>, <<>>, "KeyError")

\* variant: the handler's exception is not caught
Caught_reraise(req, d, h) ==
    [calls |-> h.calls, ui |-> h.ui, log |-> h.log, raised |-> h.exc,
     propagated |-> TRUE]

\* the `except Exception` block of the second try
Caught(req, d, h) ==
    [calls |-> h.calls,
     ui |-> h.ui \o
         <<_internal_error(LOCALES("error_generic_title"),
                           LOCALES("error_generic_text")
                               \o <<"<br><br><code>">>
                               \o get_exception_as_string(h.exc)
                               \o <<"</code>">>,
                           "serious")>>,
     log |-> h.log \o
         <<stdout("Failed to execute request: {0} with data: {1}", <<req, d>>, "error"),
           stdout("{0}", <<get_exception_as_string(h.exc)>>, "error")>>,
     raised |-> h.exc,
     propagated |-> FALSE]

parse_request(req, d, b) ==
    IF requests_exc = "KeyError"
    THEN [calls |-> <<>>,
          ui |-> <<_internal_error(<<"Internal Error">>,
                                   <<"<code>", req, "</code> is not implemented.">>,
                                   "serious")>>,
          log |-> <<stdout("Unknown Request: {0} with data: {1}", <<req, d>>, "error")>>,
          raised |-> requests_exc,
          propagated |-> FALSE]
    ELSE LET h == Handle(req, d, b)
         IN  IF h.exc # NoExc THEN Caught(req, d, h)
             ELSE [calls |-> h.calls, ui |-> h.ui, log |-> h.log,
                   raised |-> h.inner, propagated |-> FALSE]

(***************************************************************************)
(* What the UI sends and what the backend answers                          *)
(***************************************************************************)
\* daemon exception messages: strings over a letter and the newline
ErrStrings == Seqs({"e", NL}, MaxStrLen)

ZoneLists ==
    {<<>>, <<PyStr(<<"logo">>)>>, <<PyStr(<<"logo">>), PyStr(<<"scroll">>)>>}

DeviceShapes == [available : {PyBool(TRUE), PyBool(FALSE)}, zones : ZoneLists]

\* device lists: the device at position i has uid i
DeviceLists ==
    UNION {{[i \in 1..n |-> [uid |-> PyInt(i), available |-> f[i].available,
                             zones |-> f[i].zones]] : f \in [1..n -> DeviceShapes]}
           : n \in 0..MaxDevices}

\* openrazer.get_device_list(): a list, -1 (daemon not running), an exception
\* message, or an exception
ListAnswers ==
    {Returns(PyList(l)) : l \in DeviceLists}
    \cup {Returns(PyStr(m)) : m \in ErrStrings}
    \cup {Returns(PyInt(-1)), Raises}

\* openrazer.set_device_state() / debug_matrix(): the four documented answers,
\* other integers, or an exception
StateAnswers ==
    {Returns(None), Returns(PyBool(FALSE)), Returns(PyBool(TRUE)),
     Returns(PyInt(0)), Returns(PyInt(1)), Returns(PyInt(2)), Raises}
    \cup {Returns(PyStr(m)) : m \in ErrStrings}

SomeDevice ==
    PyDict([uid |-> PyInt(1), available |-> PyBool(TRUE),
            zones |-> <<PyStr(<<"logo">>)>>])

\* openrazer.get_device()
DeviceAnswers ==
    {Returns(None), Returns(SomeDevice), Raises}
    \cup {Returns(PyStr(m)) : m \in ErrStrings}

\* openrazer.troubleshoot()
TroubleshootAnswers ==
    {Returns(PyList(<<>>)), Returns(PyList(<<PyBool(TRUE), PyBool(FALSE)>>)), Raises}

NoBackend == [list |-> Returns(PyList(<<>>)), ret |-> Returns(None), raiseAt |-> 0]

\* the payload `full` without the keys in `without`
Without(full, without) == [k \in (DOMAIN full) \ without |-> full[k]]

\* the payloads that lack at most one key of `full`
LackingOne(full) == {full} \cup {Without(full, {k}) : k \in DOMAIN full}

Uids == {PyStr(<<"1">>), PyStr(<<"1", "2">>), PyInt(1), PyStr(<<"x">>), PyStr(<<>>), None}

StatePayload(uid) ==
    [uid |-> uid, backend |-> PyStr(<<"openrazer">>),
     backend_request |-> PyStr(<<"wave">>), zone |-> PyStr(<<"logo">>),
     colour_hex |-> PyList(<<PyStr(<<"#00FF00">>)>>), params |-> PyList(<<PyInt(1)>>)]

StatePayloads ==
    {StatePayload(u) : u \in Uids} \cup LackingOne(StatePayload(PyStr(<<"1">>)))

MatrixPayload(uid, position) ==
    [uid |-> uid, backend |-> PyStr(<<"openrazer">>), position |-> position]

Positions ==
    {PyList(<<>>), PyList(<<PyInt(0)>>), PyList(<<PyInt(0), PyStr(<<"3">>)>>),
     PyList(<<PyStr(<<"x">>), PyInt(1)>>), PyList(<<PyInt(2), None>>)}

MatrixPayloads ==
    {MatrixPayload(u, PyList(<<PyInt(0), PyStr(<<"3">>)>>)) : u \in Uids}
    \cup {MatrixPayload(PyStr(<<"1">>), p) : p \in Positions}
    \cup LackingOne(MatrixPayload(PyStr(<<"1">>), PyList(<<PyInt(2), PyInt(5)>>)))

AllPayload(type, value) == [type |-> PyStr(<<type>>), value |-> value]

AllPayloads ==
    {AllPayload("effect", PyStr(<<e>>)) :
        e \in {"spectrum", "wave", "reactive", "breath_single", "static",
               "starlight", "brightness"}}
    \cup {AllPayload("effect", PyInt(1)), AllPayload("effect", None)}
    \cup {AllPayload("brightness", v) : v \in {PyInt(50), PyInt(0), PyStr(<<"wave">>)}}
    \cup {AllPayload("colour", PyStr(<<"#00FF00">>)), AllPayload("dpi", PyInt(800))}
    \cup LackingOne(AllPayload("brightness", PyInt(50)))

UnknownRequests == {"", "foo", "set_device_colours", "_open_device", "initalise_app"}

(***************************************************************************)
(* The state machine                                                       *)
(***************************************************************************)
Init ==
    /\ pc = "idle"
    /\ request = ""
    /\ data = <<>>
    /\ backend = NoBackend
    /\ calls = <<>>
    /\ ui = <<>>
    /\ log = <<>>
    /\ raised = NoExc
    /\ propagated = FALSE

\* the UI calls parse_request(req, d); the backend answers as b says
Dispatch(req, d, b) ==
    /\ pc' = "done"
    /\ request' = req
    /\ data' = d
    /\ backend' = b
    /\ LET r == parse_request(req, d, b)
       IN  /\ calls' = r.calls
           /\ ui' = r.ui
           /\ log' = r.log
           /\ raised' = r.raised
           /\ propagated' = r.propagated

update_device_list ==
    /\ pc = "idle"
    /\ \E d \in LackingOne([callback |-> PyStr(<<"refresh">>)]), l \in ListAnswers :
        Dispatch("update_device_list", d, [NoBackend EXCEPT !.list = l])

open_device ==
    /\ pc = "idle"
    /\ \E d \in LackingOne([uid |-> PyInt(1)]), a \in DeviceAnswers :
        Dispatch("open_device", d, [NoBackend EXCEPT !.ret = a])

apply_to_all ==
    /\ pc = "idle"
    /\ \E d \in AllPayloads, l \in ListAnswers,
       a \in {Returns(None), Returns(PyBool(FALSE)), Returns(PyBool(TRUE)),
              Returns(PyStr(<<"e">>))},
       k \in 0..MaxRaiseAt :
        Dispatch("apply_to_all", d, [list |-> l, ret |-> a, raiseAt |-> k])

set_device_state ==
    /\ pc = "idle"
    /\ \E d \in StatePayloads, a \in StateAnswers :
        Dispatch("set_device_state", d, [NoBackend EXCEPT !.ret = a])

debug_matrix ==
    /\ pc = "idle"
    /\ \E d \in MatrixPayloads, a \in StateAnswers :
        Dispatch("debug_matrix", d, [NoBackend EXCEPT !.ret = a])

open_help ==
    /\ pc = "idle"
    /\ \E d \in {<<>>}, a \in {Returns(PyBool(TRUE)), Returns(PyBool(FALSE)), Raises} :
        Dispatch("open_help", d, [NoBackend EXCEPT !.ret = a])

troubleshoot_openrazer ==
    /\ pc = "idle"
    /\ \E d \in {<<>>}, a \in TroubleshootAnswers :
        Dispatch("troubleshoot_openrazer", d, [NoBackend EXCEPT !.ret = a])

unknown_request ==
    /\ pc = "idle"
    /\ \E req \in UnknownRequests, d \in LackingOne([uid |-> PyInt(1)]) :
        Dispatch(req, d, NoBackend)

\* parse_request has returned; the controller keeps nothing of the request
Return ==
    /\ pc = "done"
    /\ pc' = "idle"
    /\ request' = ""
    /\ data' = <<>>
    /\ backend' = NoBackend
    /\ calls' = <<>>
    /\ ui' = <<>>
    /\ log' = <<>>
    /\ raised' = NoExc
    /\ propagated' = FALSE

Next ==
    \/ update_device_list
    \/ open_device
    \/ apply_to_all
    \/ set_device_state
    \/ debug_matrix
    \/ open_help
    \/ troubleshoot_openrazer
    \/ unknown_request
    \/ Return

Spec == Init /\ [][Next]_vars

(***************************************************************************)
(* Vocabulary of the properties                                            *)
(***************************************************************************)
IsDialog(e) == e.ch = "run_js" /\ e.fn = <<"open_dialog">>
Dialogs == SelectSeq(ui, IsDialog)

\* the open_dialog push with this title, message and severity
Dlg(title, message, style) ==
    [ch |-> "run_js", fn |-> <<"open_dialog">>, args |-> <<title, message, style>>]

\* the push that invokes a UI function with one JSON argument
Invoke(function, arg) == [ch |-> "run_js", fn |-> <<function>>, args |-> <<arg>>]

\* `needle` occurs in `hay` as a contiguous run
Contains(hay, needle) ==
    \E i \in 0..(Len(hay) - Len(needle)) :
        SubSeq(hay, i + 1, i + Len(needle)) = needle

\* the text s with <br> in place of each newline
RECURSIVE Br(_)
Br(s) ==
    IF s = <<>> THEN <<>>
    ELSE IF s[1] = NL THEN <<"<", "b", "r", ">">> \o Br(Tail(s))
    ELSE <<s[1]>> \o Br(Tail(s))

\* the router's generic dialog: generic title, generic text, then the trace
IsGenericDialog(e) ==
    /\ IsDialog(e)
    /\ e.args[1] = <<"error_generic_title">>
    /\ Head(e.args[2]) = "error_generic_text"
    /\ Contains(e.args[2], <<"<br><br><code>", "Traceback (most recent call last):">>)
    /\ e.args[3] = "serious"

TroubleshootDialog == Dlg(<<"troubleshoot">>, <<"troubleshoot_cannot_run">>, "serious")
DeviceGoneDialog ==
    Dlg(<<"error_device_gone_title">>, <<"error_device_gone_text">>, "warning")
BadRequestDialog ==
    Dlg(<<"error_bad_request_title">>, <<"error_bad_request_text">>, "warning")

BackendFns ==
    {"get_device_list", "get_device", "set_device_state", "set_device_colours",
     "debug_matrix", "troubleshoot"}
IsBackendCall(c) == c.fn \in BackendFns
IsStateCall(c) == c.fn = "set_device_state"
IsColourCall(c) == c.fn = "set_device_colours"
StateCalls == SelectSeq(calls, IsStateCall)

Logged(msg) == \E i \in 1..Len(log) : log[i].msg = msg

Handled(req) == pc = "done" /\ request = req

(***************************************************************************)
(* C1  An exception raised while a registered handler runs never leaves    *)
(* parse_request, and the dispatch shows exactly one dialog: the router's  *)
(* generic dialog when the exception left the handler, and the             *)
(* troubleshooting-failed dialog when troubleshoot_openrazer caught it.    *)
(***************************************************************************)
C1_ExceptionContained ==
    (pc = "done" /\ request \in Requests /\ raised # NoExc) =>
        /\ ~propagated
        /\ Len(Dialogs) = 1
        /\ IF request = "troubleshoot_openrazer"
           THEN Dialogs[1] = TroubleshootDialog
           ELSE IsGenericDialog(Dialogs[1]) /\ Contains(Dialogs[1].args[2], <<raised>>)

C1_Witness ==
    /\ Handled("set_device_state")
    /\ raised = "ValueError"
    /\ Len(Dialogs) = 1
    /\ IsGenericDialog(Dialogs[1])

\* C1 as stated: the one dialog is the router's generic dialog for every
\* one of the seven handlers.
C1_AsStated ==
    (pc = "done" /\ request \in Requests /\ raised # NoExc) =>
        /\ ~propagated
        /\ Len(Dialogs) = 1
        /\ IsGenericDialog(Dialogs[1])

(***************************************************************************)
(* C2  A request name outside the seven registered names yields exactly    *)
(* one open_dialog push and no call to the backend client.                 *)
(***************************************************************************)
C2_UnknownRequest ==
    (pc = "done" /\ request \notin Requests) =>
        /\ Len(Dialogs) = 1
        /\ Len(ui) = 1
        /\ SelectSeq(calls, IsBackendCall) = <<>>

C2_Witness ==
    /\ Handled("foo")
    /\ Len(Dialogs) = 1
    /\ calls = <<>>

(***************************************************************************)
(* C3  set_device_state makes exactly one state-mutation call and maps its *)
(* return value four ways: None -> only the device-gone warning; False ->  *)
(* only the bad-request warning, no success log; a string -> exactly one   *)
(* serious dialog whose message embeds the string with every newline       *)
(* replaced by <br>, and nothing else; True -> the success log, no dialog. *)
(***************************************************************************)
C3_Common(embedded) ==
    LET r == backend.ret.val
    IN  /\ Len(calls) = 1
        /\ IsStateCall(calls[1])
        /\ r = None => ui = <<DeviceGoneDialog>>
                       /\ ~Logged("Successfully executed request")
        /\ r = PyBool(FALSE) => ui = <<BadRequestDialog>>
                                /\ ~Logged("Successfully executed request")
        /\ r.t = "str" => /\ Len(ui) = 1
                          /\ IsDialog(ui[1])
                          /\ ui[1].args[3] = "serious"
                          /\ ui[1].args[1] = <<"error_backend_title">>
                          /\ Contains(ui[1].args[2], embedded)
                          /\ ~Logged("Successfully executed request")
        /\ r = PyBool(TRUE) => ui = <<>> /\ Logged("Successfully executed request")

C3_FourWay ==
    (Handled("set_device_state") /\ raised = NoExc) =>
        C3_Common(<<"<pre>">> \o Br(backend.ret.val.v) \o <<"</pre>">>)

C3_Witness ==
    /\ Handled("set_device_state")
    /\ raised = NoExc
    /\ backend.ret.val = PyStr(<<"e", NL>>)
    /\ Len(Dialogs) = 1

\* C3 as stated: the message embeds the exact string.
C3_AsStated ==
    (Handled("set_device_state") /\ raised = NoExc) =>
        C3_Common(<<"<pre>">> \o backend.ret.val.v \o <<"</pre>">>)

(***************************************************************************)
(* C4  open_device: None -> open_device_overview with no data and nothing  *)
(* else; a string -> _open_device_error with {code: -2, exception: the     *)
(* string} and no _open_device; any other value -> _open_device with it.   *)
(***************************************************************************)
C4_AsStated ==
    (Handled("open_device") /\ raised = NoExc) =>
        LET r == backend.ret.val
        IN  ui = IF r = None THEN <<Invoke("open_device_overview", EmptyDict)>>
                 ELSE IF r.t = "str"
                 THEN <<Invoke("_open_device_error",
                               PyDict([code |-> PyInt(-2), exception |-> r]))>>
                 ELSE <<Invoke("_open_device", r)>>

(***************************************************************************)
(* The fan-out of apply_to_all                                             *)
(***************************************************************************)
\* apply_to_all ran with this request type on a real device list, and no
\* backend call raised
FannedOut(type) ==
    /\ Handled("apply_to_all")
    /\ DOMAIN data = {"type", "value"}
    /\ data["type"] = PyStr(<<type>>)
    /\ ~backend.list.raise
    /\ backend.list.val.t = "list"
    /\ backend.raiseAt = 0

DeviceList == backend.list.val.v
ZoneOf(device, zone) == \E j \in 1..Len(device.zones) : device.zones[j] = zone
AllZones == {PyStr(<<"logo">>), PyStr(<<"scroll">>)}

\* the state-mutation calls are exactly one per zone of every available
\* device and none for any other device or zone, each with this request
\* name, no colour and this one-element parameter list
OnePerZone(name, param) ==
    /\ \A i \in 1..Len(StateCalls) :
          /\ StateCalls[i].args[2] = name
          /\ StateCalls[i].args[4] = None
          /\ StateCalls[i].args[5] = PyList(<<param>>)
          /\ \E k \in 1..Len(DeviceList) : StateCalls[i].args[1] = DeviceList[k].uid
          /\ StateCalls[i].args[3] \in AllZones
    /\ \A k \in 1..Len(DeviceList), z \in AllZones :
          Cardinality({i \in 1..Len(StateCalls) :
                          /\ StateCalls[i].args[1] = DeviceList[k].uid
                          /\ StateCalls[i].args[3] = z})
          = IF DeviceList[k].available = PyBool(TRUE) /\ ZoneOf(DeviceList[k], z)
            THEN 1 ELSE 0

(***************************************************************************)
(* C5  apply_to_all with type "brightness" and value v issues, whatever    *)
(* the backend calls return, exactly one state-mutation call per zone of   *)
(* every available device, each named "brightness" with no colour and      *)
(* params [v]; unavailable devices get none; no result stops the remaining *)
(* calls or produces a dialog.                                             *)
(***************************************************************************)
C5_Brightness ==
    FannedOut("brightness") =>
        /\ OnePerZone(PyStr(<<"brightness">>), data["value"])
        /\ Len(calls) = 1 + Len(StateCalls)
        /\ ui = <<>>
        /\ raised = NoExc

C5_Witness ==
    /\ FannedOut("brightness")
    /\ data["value"] = PyInt(50)
    /\ backend.ret.val = PyBool(FALSE)
    /\ Len(DeviceList) = 2
    /\ DeviceList[1].available = PyBool(FALSE)
    /\ DeviceList[1].zones # <<>>
    /\ Len(StateCalls) = 2

(***************************************************************************)
(* C6  apply_to_all with type "effect" and a value e of the default table  *)
(* issues exactly one state-mutation call per zone of every available      *)
(* device, named e, with no colour and params [1] for wave, [2] for        *)
(* reactive and [None] for spectrum, breath_single and static; it issues   *)
(* no colour-mutation call.                                                *)
(***************************************************************************)
TableParam(e) ==
    IF e = PyStr(<<"wave">>) THEN PyInt(1)
    ELSE IF e = PyStr(<<"reactive">>) THEN PyInt(2)
    ELSE None

TableEffects ==
    {PyStr(<<"spectrum">>), PyStr(<<"wave">>), PyStr(<<"reactive">>),
     PyStr(<<"breath_single">>), PyStr(<<"static">>)}

C6_Effect ==
    (FannedOut("effect") /\ data["value"] \in TableEffects) =>
        /\ OnePerZone(data["value"], TableParam(data["value"]))
        /\ SelectSeq(calls, IsColourCall) = <<>>
        /\ Len(calls) = 1 + Len(StateCalls)

C6_Witness ==
    /\ FannedOut("effect")
    /\ data["value"] = PyStr(<<"wave">>)
    /\ Len(StateCalls) = 3
    /\ StateCalls[3].args[5] = PyList(<<PyInt(1)>>)

(***************************************************************************)
(* C7  debug_matrix classifies the return value of the matrix-debug call   *)
(* the way set_device_state does: None -> device-gone warning; False ->    *)
(* bad-request warning; a string -> a serious dialog containing the        *)
(* message; True -> only the coordinates are logged.                       *)
(***************************************************************************)
C7_AsStated ==
    (Handled("debug_matrix") /\ raised = NoExc) =>
        LET r == backend.ret.val
        IN  /\ r = None => ui = <<DeviceGoneDialog>>
            /\ r = PyBool(FALSE) => ui = <<BadRequestDialog>>
            /\ r.t = "str" => /\ Len(ui) = 1
                              /\ IsDialog(ui[1])
                              /\ ui[1].args[3] = "serious"
                              /\ Contains(ui[1].args[2], Br(r.v))
            /\ r = PyBool(TRUE) => ui = <<>> /\ Logged("OK: [{0},{1}]")

(***************************************************************************)
(* C8  troubleshoot_openrazer: when the backend's troubleshoot returns,    *)
(* its results go to _show_troubleshoot_results exactly once and no dialog *)
(* is shown; when it raises, the handler catches it, the results callback  *)
(* is not invoked, and exactly one dialog is shown, the troubleshooting-   *)
(* failed dialog, which differs in title and message from the router's     *)
(* generic dialog.                                                         *)
(***************************************************************************)
C8_Troubleshoot ==
    Handled("troubleshoot_openrazer") =>
        /\ ~propagated
        /\ IF backend.ret.raise
           THEN /\ ui = <<TroubleshootDialog>>
                /\ ~IsGenericDialog(ui[1])
                /\ ui[1].args[1] # <<"error_generic_title">>
                /\ Head(ui[1].args[2]) # "error_generic_text"
           ELSE ui = <<Invoke("_show_troubleshoot_results", backend.ret.val)>>

C8_Witness ==
    /\ Handled("troubleshoot_openrazer")
    /\ backend.ret.raise
    /\ raised = "BackendError"
    /\ ui = <<TroubleshootDialog>>

(***************************************************************************)
(* C9  A request name absent from the mapping is logged as an unknown      *)
(* request and raises the "not implemented" dialog (title "Internal        *)
(* Error", message "<name> is not implemented."), not the dialog with a    *)
(* stack trace.                                                            *)
(***************************************************************************)
C9_AsStated ==
    (pc = "done" /\ request \notin Requests) =>
        /\ ~propagated
        /\ Logged("Unknown Request: {0} with data: {1}")
        /\ ui = <<Dlg(<<"Internal Error">>,
                      <<"<code>", request, "</code> is not implemented.">>,
                      "serious")>>

(***************************************************************************)
(* C10  apply_to_all with type "effect" and a value outside the default    *)
(* table issues no state-mutation call.  When some available device has a  *)
(* zone, the lookup fails at the first zone and the router shows exactly   *)
(* one generic dialog; when no available device has a zone, nothing is     *)
(* looked up and no dialog is shown.                                       *)
(***************************************************************************)
SomeZoneVisited ==
    \E k \in 1..Len(DeviceList) :
        DeviceList[k].available = PyBool(TRUE) /\ DeviceList[k].zones # <<>>

C10_UnknownEffect ==
    (FannedOut("effect") /\ data["value"] \notin TableEffects) =>
        /\ StateCalls = <<>>
        /\ Len(calls) = 1
        /\ IF SomeZoneVisited
           THEN /\ raised = "KeyError"
                /\ Len(ui) = 1
                /\ IsGenericDialog(ui[1])
           ELSE raised = NoExc /\ ui = <<>>

C10_Witness ==
    /\ FannedOut("effect")
    /\ data["value"] = PyStr(<<"starlight">>)
    /\ SomeZoneVisited
    /\ raised = "KeyError"
    /\ Len(Dialogs) = 1

\* C10 as stated: one generic dialog for every device list.
C10_AsStated ==
    (FannedOut("effect") /\ data["value"] \notin TableEffects) =>
        /\ StateCalls = <<>>
        /\ Len(Dialogs) = 1
        /\ IsGenericDialog(Dialogs[1])

====
